---- MODULE Spec2Model ----
(***************************************************************************)
(* A state-machine model of the two command-line tools of IFRNet:          *)
(*                                                                         *)
(*   interpolate_video.py    the Frame-Rate Upconverter                    *)
(*   download_checkpoints.py the Checkpoint Fetcher                        *)
(*                                                                         *)
(* One behaviour is one run of one tool (variable tool).  Each script is   *)
(* cut into steps at its calls to the outside world (torch, cv2, requests, *)
(* zipfile, the filesystem); a call that can raise has one action for its  *)
(* normal return and one for the exception.  An uncaught exception ends    *)
(* the Upconverter in upc = "failed"; the Fetcher's try/except ends it in  *)
(* fpc = "exited" with an exit status.                                     *)
(*                                                                         *)
(* Frame rates are integers in one common unit: only the ratio             *)
(* target_fps / fps is used by the code.  A source frame is a record       *)
(* holding its pixel value; a synthetic frame is the record of the         *)
(* arguments interpolate_frame was called with (the network is opaque).    *)
(***************************************************************************)
EXTENDS Integers, Sequences, FiniteSets

\* ---------------------------------------------------------------- bounds
MaxFrames == 3
MaxSourceFps == 3
MaxTargetFps == 7
MaxChunks == 2
MaxChunkLen == 2
MaxEntries == 2

VARIABLES
    tool,
    \* ---- interpolate_video.py
    upc, checkpoint, video, cap_opens, fps, target_fps,
    model, cap, frames, factor, out, interp_count, i, k,
    written, calls, uerr,
    \* ---- download_checkpoints.py
    fpc, stream, content_length, archive,
    files, zip_data, f, response, total_size, pbar, pos,
    zip_ref, extracted, manifest, exit_status, ferr, attempts, log

uvars == <<upc, checkpoint, video, cap_opens, fps, target_fps,
           model, cap, frames, factor, out, interp_count, i, k,
           written, calls, uerr>>
fvars == <<fpc, stream, content_length, archive,
           files, zip_data, f, response, total_size, pbar, pos,
           zip_ref, extracted, manifest, exit_status, ferr, attempts, log>>
vars == <<tool, uvars, fvars>>

\* ------------------------------------------------------ helper operators
Pixels == {0, 1}

SeqsUpTo(S, n) == UNION {[1..m -> S] : m \in 0..n}

\* A decoded source frame.
SrcFrame(p) == [kind |-> "src", px |-> <<p>>, t |-> <<0, 1>>]

\* Python 3 round() on the non-negative rational n/d: ties go to the even
\* integer.
PyRound(n, d) ==
    LET q == n \div d
        r == n % d
    IN  IF 2 * r < d THEN q
        ELSE IF 2 * r > d THEN q + 1
        ELSE IF q % 2 = 0 THEN q ELSE q + 1

\* factor = args.target_fps / fps; if factor <= 1: factor = 1
\* (a rational <<numerator, denominator>>, fps > 0).
Factor(t, s) == IF t <= s THEN <<1, 1>> ELSE <<t, s>>

\* A faulty variant of InterpCount: the factor is rounded up.
InterpCount_ceil(fac) == ((fac[1] + fac[2] - 1) \div fac[2]) - 1

\* interp_count = int(round(factor)) - 1
InterpCount(fac) == PyRound(fac[1], fac[2]) - 1

\* interpolate_frame(model, img0, img1, t) with t = k / d: the external
\* network applied to the two frames at time t.
interpolate_frame(img0, img1, kk, d) ==
    [kind |-> "mid", px |-> img0.px \o img1.px, t |-> <<kk, d>>]

\* ================================================== interpolate_video.py
UInit ==
    /\ upc = "load"
    /\ checkpoint \in {"flat", "state_dict", "missing", "invalid"}
    /\ video \in SeqsUpTo(Pixels, MaxFrames)
    /\ cap_opens \in BOOLEAN
    /\ fps \in 0..MaxSourceFps
    /\ target_fps \in 1..MaxTargetFps
    /\ model = "none"
    /\ cap = "none"
    /\ frames = <<>>
    /\ factor = <<0, 1>>
    /\ out = "none"
    /\ interp_count = -1
    /\ i = 0
    /\ k = 0
    /\ written = <<>>
    /\ calls = <<>>
    /\ uerr = "none"

UIdle ==
    /\ upc = "idle"
    /\ checkpoint = "flat"
    /\ video = <<>>
    /\ cap_opens = FALSE
    /\ fps = 0
    /\ target_fps = 1
    /\ model = "none"
    /\ cap = "none"
    /\ frames = <<>>
    /\ factor = <<0, 1>>
    /\ out = "none"
    /\ interp_count = -1
    /\ i = 0
    /\ k = 0
    /\ written = <<>>
    /\ calls = <<>>
    /\ uerr = "none"

URaise(e) ==
    /\ upc' = "failed"
    /\ uerr' = e

\* model = load_model(args.model): both checkpoint layouts load.
load_model ==
    /\ tool = "upconverter" /\ UNCHANGED <<tool, fvars>>
    /\ upc = "load"
    /\ checkpoint \in {"flat", "state_dict"}
    /\ model' = "loaded"
    /\ upc' = "open"
    /\ UNCHANGED <<checkpoint, video, cap_opens, fps, target_fps, cap, frames,
                   factor, out, interp_count, i, k, written, calls, uerr>>

\* torch.load / load_state_dict raise on a missing or invalid file.
load_model_raises ==
    /\ tool = "upconverter" /\ UNCHANGED <<tool, fvars>>
    /\ upc = "load"
    /\ checkpoint \in {"missing", "invalid"}
    /\ URaise("load_model")
    /\ UNCHANGED <<checkpoint, video, cap_opens, fps, target_fps, model, cap,
                   frames, factor, out, interp_count, i, k, written, calls>>

\* A faulty variant of OpenVideo: the VideoWriter is created as soon as the
\* capture is open, before any frame is decoded.
OpenVideo_opens_writer ==
    /\ tool = "upconverter" /\ UNCHANGED <<tool, fvars>>
    /\ upc = "open"
    /\ IF ~cap_opens
         THEN /\ URaise("RuntimeError")
              /\ UNCHANGED <<cap, factor, out>>
         ELSE /\ cap' = "open"
              /\ out' = "open"
              /\ IF fps = 0
                   THEN /\ URaise("ZeroDivisionError")
                        /\ UNCHANGED factor
                   ELSE /\ factor' = Factor(target_fps, fps)
                        /\ upc' = "read"
                        /\ UNCHANGED uerr
    /\ UNCHANGED <<checkpoint, video, cap_opens, fps, target_fps, model,
                   frames, interp_count, i, k, written, calls>>

\* cap = cv2.VideoCapture(...); the isOpened check; fps; factor and its clamp.
OpenVideo ==
    /\ tool = "upconverter" /\ UNCHANGED <<tool, fvars>>
    /\ upc = "open"
    /\ IF ~cap_opens
         THEN /\ URaise("RuntimeError")
              /\ UNCHANGED <<cap, factor>>
         ELSE /\ cap' = "open"
              /\ IF fps = 0
                   THEN /\ URaise("ZeroDivisionError")
                        /\ UNCHANGED factor
                   ELSE /\ factor' = Factor(target_fps, fps)
                        /\ upc' = "read"
                        /\ UNCHANGED uerr
    /\ UNCHANGED <<checkpoint, video, cap_opens, fps, target_fps, model,
                   frames, out, interp_count, i, k, written, calls>>

\* ok, frame = cap.read(); frames.append(frame)
ReadFrame ==
    /\ tool = "upconverter" /\ UNCHANGED <<tool, fvars>>
    /\ upc = "read"
    /\ Len(frames) < Len(video)
    /\ frames' = Append(frames, SrcFrame(video[Len(frames) + 1]))
    /\ UNCHANGED <<upc, checkpoint, video, cap_opens, fps, target_fps, model,
                   cap, factor, out, interp_count, i, k, written, calls, uerr>>

\* if not ok: break; cap.release(); out = cv2.VideoWriter(...);
\* interp_count = int(round(factor)) - 1
OpenWriter ==
    /\ tool = "upconverter" /\ UNCHANGED <<tool, fvars>>
    /\ upc = "read"
    /\ Len(frames) = Len(video)
    /\ cap' = "released"
    /\ out' = "open"
    /\ interp_count' = InterpCount(factor)
    /\ i' = 0
    /\ upc' = "pairs"
    /\ UNCHANGED <<checkpoint, video, cap_opens, fps, target_fps, model,
                   frames, factor, k, written, calls, uerr>>

\* for i in range(len(frames) - 1): f0, f1 = ...; out.write(f0)
WriteOriginal ==
    /\ tool = "upconverter" /\ UNCHANGED <<tool, fvars>>
    /\ upc = "pairs"
    /\ i < Len(frames) - 1
    /\ written' = Append(written, frames[i + 1])
    /\ k' = 1
    /\ upc' = "mids"
    /\ UNCHANGED <<checkpoint, video, cap_opens, fps, target_fps, model, cap,
                   frames, factor, out, interp_count, i, calls, uerr>>

\* A faulty variant of WriteMid: t = k / interp_count.
WriteMid_wrong_denominator ==
    /\ tool = "upconverter" /\ UNCHANGED <<tool, fvars>>
    /\ upc = "mids"
    /\ k <= interp_count
    /\ calls' = Append(calls, [a |-> i, b |-> i + 1,
                               num |-> k, den |-> interp_count])
    /\ written' = Append(written,
           interpolate_frame(frames[i + 1], frames[i + 2], k, interp_count))
    /\ k' = k + 1
    /\ UNCHANGED <<upc, checkpoint, video, cap_opens, fps, target_fps, model,
                   cap, frames, factor, out, interp_count, i, uerr>>

\* for k in range(1, interp_count + 1): t = k / (interp_count + 1);
\* mid = interpolate_frame(model, f0, f1, t); out.write(mid)
WriteMid ==
    /\ tool = "upconverter" /\ UNCHANGED <<tool, fvars>>
    /\ upc = "mids"
    /\ k <= interp_count
    /\ calls' = Append(calls, [a |-> i, b |-> i + 1,
                               num |-> k, den |-> interp_count + 1])
    /\ written' = Append(written,
           interpolate_frame(frames[i + 1], frames[i + 2], k, interp_count + 1))
    /\ k' = k + 1
    /\ UNCHANGED <<upc, checkpoint, video, cap_opens, fps, target_fps, model,
                   cap, frames, factor, out, interp_count, i, uerr>>

\* the inner range is exhausted: next pair
NextPair ==
    /\ tool = "upconverter" /\ UNCHANGED <<tool, fvars>>
    /\ upc = "mids"
    /\ k > interp_count
    /\ i' = i + 1
    /\ upc' = "pairs"
    /\ UNCHANGED <<checkpoint, video, cap_opens, fps, target_fps, model, cap,
                   frames, factor, out, interp_count, k, written, calls, uerr>>

\* interpolate_frame raises (the CUDA inference fails): uncaught.
interpolate_frame_raises ==
    /\ tool = "upconverter" /\ UNCHANGED <<tool, fvars>>
    /\ upc = "mids"
    /\ k <= interp_count
    /\ calls' = Append(calls, [a |-> i, b |-> i + 1,
                               num |-> k, den |-> interp_count + 1])
    /\ URaise("interpolate_frame")
    /\ UNCHANGED <<checkpoint, video, cap_opens, fps, target_fps, model, cap,
                   frames, factor, out, interp_count, i, k, written>>

\* out.write raises (in either loop): uncaught.
write_raises ==
    /\ tool = "upconverter" /\ UNCHANGED <<tool, fvars>>
    /\ \/ upc = "pairs" /\ i < Len(frames) - 1
       \/ upc = "mids" /\ k <= interp_count
    /\ URaise("write")
    /\ UNCHANGED <<checkpoint, video, cap_opens, fps, target_fps, model, cap,
                   frames, factor, out, interp_count, i, k, written, calls>>

\* A faulty variant of WriteLast: the last frame is not written.
WriteLast_skips_last ==
    /\ tool = "upconverter" /\ UNCHANGED <<tool, fvars>>
    /\ upc = "pairs"
    /\ ~(i < Len(frames) - 1)
    /\ out' = "released"
    /\ upc' = "done"
    /\ UNCHANGED <<checkpoint, video, cap_opens, fps, target_fps, model, cap,
                   frames, factor, interp_count, i, k, written, calls, uerr>>

\* out.write(frames[-1]); out.release(): frames[-1] of an empty list raises
\* IndexError before anything is written or released.
WriteLast ==
    /\ tool = "upconverter" /\ UNCHANGED <<tool, fvars>>
    /\ upc = "pairs"
    /\ ~(i < Len(frames) - 1)
    /\ IF frames = <<>>
         THEN /\ URaise("IndexError")
              /\ UNCHANGED <<written, out>>
         ELSE /\ written' = Append(written, frames[Len(frames)])
              /\ out' = "released"
              /\ upc' = "done"
              /\ UNCHANGED uerr
    /\ UNCHANGED <<checkpoint, video, cap_opens, fps, target_fps, model, cap,
                   frames, factor, interp_count, i, k, calls>>

\* ================================================ download_checkpoints.py
\* zip_path = checkpoints_dir / "ifrnet_checkpoints.zip"
zip_path == <<"ifrnet_checkpoints.zip", 0>>

\* the path an archive entry is extracted to under checkpoints_dir
EntryPath(e) == <<"entry", e>>

Chunks == SeqsUpTo(Pixels, MaxChunkLen)

FIdle ==
    /\ fpc = "idle" /\ stream = <<>> /\ content_length = <<>> /\ archive = 0
    /\ files = {} /\ zip_data = <<>> /\ f = "none" /\ response = "none"
    /\ total_size = 0 /\ pbar = 0 /\ pos = 0 /\ zip_ref = "none"
    /\ extracted = 0 /\ manifest = {} /\ exit_status = -1 /\ ferr = "none"
    /\ attempts = 0 /\ log = <<>>

RECURSIVE Concat(_)
Concat(chunks) ==
    IF chunks = <<>> THEN <<>> ELSE Head(chunks) \o Concat(Tail(chunks))

\* The response body is a sequence of chunks; the content-length header is
\* either absent or the body's byte count.  A stale archive of an earlier
\* run may lie in checkpoints/.
FInit ==
    /\ fpc = "mkdir"
    /\ stream \in SeqsUpTo(Chunks, MaxChunks)
    /\ content_length \in {<<>>, <<Len(Concat(stream))>>}
    /\ \E stale \in BOOLEAN :
          /\ files = IF stale THEN {zip_path} ELSE {}
          /\ zip_data = IF stale THEN <<1>> ELSE <<>>
    /\ archive = 0
    /\ f = "none" /\ response = "none"
    /\ total_size = 0 /\ pbar = 0 /\ pos = 0 /\ zip_ref = "none"
    /\ extracted = 0 /\ manifest = {} /\ exit_status = -1 /\ ferr = "none"
    /\ attempts = 0 /\ log = <<>>

\* A faulty variant of except_clauses: the last clause prints and returns.
except_clauses_no_exit(e, fs) ==
    /\ fpc' = "exited"
    /\ exit_status' = IF e \in {"RequestException", "BadZipFile"} THEN 1 ELSE 0
    /\ ferr' = e
    /\ files' = IF e = "BadZipFile" THEN fs \ {zip_path} ELSE fs

\* The except clauses of main, entered with exception e while the
\* directory holds fs: every clause ends in sys.exit(1); the BadZipFile
\* clause first unlinks zip_path if it exists.
except_clauses(e, fs) ==
    /\ fpc' = "exited"
    /\ exit_status' = 1
    /\ ferr' = e
    /\ files' = IF e = "BadZipFile" THEN fs \ {zip_path} ELSE fs

\* Step 1: checkpoints_dir.mkdir(exist_ok=True)
MakeDir ==
    /\ tool = "fetcher" /\ UNCHANGED <<tool, uvars>>
    /\ fpc = "mkdir"
    /\ log' = Append(log, "mkdir")
    /\ fpc' = "download"
    /\ UNCHANGED <<stream, content_length, archive, files, zip_data, f,
                   response, total_size, pbar, pos, zip_ref, extracted,
                   manifest, exit_status, ferr, attempts>>

MakeDir_raises ==
    /\ tool = "fetcher" /\ UNCHANGED <<tool, uvars>>
    /\ fpc = "mkdir"
    /\ except_clauses("OSError", files)
    /\ UNCHANGED <<stream, content_length, archive, zip_data, f,
                   response, total_size, pbar, pos, zip_ref, extracted,
                   manifest, attempts, log>>

\* Step 2, download_file up to the loop: requests.get, raise_for_status,
\* total_size, open(filepath, 'wb') and the progress bar.
download_file ==
    /\ tool = "fetcher" /\ UNCHANGED <<tool, uvars>>
    /\ fpc = "download"
    /\ attempts' = attempts + 1
    /\ response' = "open"
    /\ total_size' = IF content_length = <<>> THEN 0 ELSE content_length[1]
    /\ f' = "open"
    /\ files' = files \cup {zip_path}
    /\ zip_data' = <<>>
    /\ pbar' = 0
    /\ pos' = 0
    /\ fpc' = "chunks"
    /\ UNCHANGED <<stream, content_length, archive, zip_ref, extracted,
                   manifest, exit_status, ferr, log>>

\* requests.get raises (no response), or raise_for_status raises on an
\* error status (the response stays open).
download_file_get_raises ==
    /\ tool = "fetcher" /\ UNCHANGED <<tool, uvars>>
    /\ fpc = "download"
    /\ attempts' = attempts + 1
    /\ response' \in {"none", "open"}
    /\ except_clauses("RequestException", files)
    /\ UNCHANGED <<stream, content_length, archive, zip_data, f,
                   total_size, pbar, pos, zip_ref, extracted, manifest, log>>

\* open(filepath, 'wb') raises after the response was obtained.
download_file_open_raises ==
    /\ tool = "fetcher" /\ UNCHANGED <<tool, uvars>>
    /\ fpc = "download"
    /\ attempts' = attempts + 1
    /\ response' = "open"
    /\ total_size' = IF content_length = <<>> THEN 0 ELSE content_length[1]
    /\ except_clauses("OSError", files)
    /\ UNCHANGED <<stream, content_length, archive, zip_data, f,
                   pbar, pos, zip_ref, extracted, manifest, log>>

\* A faulty variant of ReceiveChunk: pbar.update(1) per chunk.
ReceiveChunk_counts_chunks ==
    /\ tool = "fetcher" /\ UNCHANGED <<tool, uvars>>
    /\ fpc = "chunks"
    /\ pos < Len(stream)
    /\ LET chunk == stream[pos + 1]
       IN  IF chunk # <<>>
             THEN /\ zip_data' = zip_data \o chunk
                  /\ pbar' = pbar + 1
             ELSE UNCHANGED <<zip_data, pbar>>
    /\ pos' = pos + 1
    /\ UNCHANGED <<fpc, stream, content_length, archive, files, f, response,
                   total_size, zip_ref, extracted, manifest, exit_status,
                   ferr, attempts, log>>

\* for chunk in response.iter_content(...): if chunk: f.write(chunk);
\* pbar.update(len(chunk))
ReceiveChunk ==
    /\ tool = "fetcher" /\ UNCHANGED <<tool, uvars>>
    /\ fpc = "chunks"
    /\ pos < Len(stream)
    /\ LET chunk == stream[pos + 1]
       IN  IF chunk # <<>>
             THEN /\ zip_data' = zip_data \o chunk
                  /\ pbar' = pbar + Len(chunk)
             ELSE UNCHANGED <<zip_data, pbar>>
    /\ pos' = pos + 1
    /\ UNCHANGED <<fpc, stream, content_length, archive, files, f, response,
                   total_size, zip_ref, extracted, manifest, exit_status,
                   ferr, attempts, log>>

\* iter_content is exhausted: the with block closes f; the fully read
\* response gives its connection back.
EndOfStream ==
    /\ tool = "fetcher" /\ UNCHANGED <<tool, uvars>>
    /\ fpc = "chunks"
    /\ pos = Len(stream)
    /\ f' = "closed"
    /\ response' = "released"
    /\ log' = Append(log, "download")
    /\ fpc' = "extract"
    /\ UNCHANGED <<stream, content_length, archive, files, zip_data,
                   total_size, pbar, pos, zip_ref, extracted, manifest,
                   exit_status, ferr, attempts>>

\* iter_content raises midway (the connection breaks), or f.write raises:
\* the with block closes f, nothing closes the response.
download_file_loop_raises ==
    /\ tool = "fetcher" /\ UNCHANGED <<tool, uvars>>
    /\ fpc = "chunks"
    /\ f' = "closed"
    /\ \E e \in {"RequestException", "OSError"} :
          /\ e = "OSError" => pos < Len(stream) /\ stream[pos + 1] # <<>>
          /\ except_clauses(e, files)
    /\ UNCHANGED <<stream, content_length, archive, zip_data, response,
                   total_size, pbar, pos, zip_ref, extracted, manifest,
                   attempts, log>>

\* Step 3, extract_zip: zipfile.ZipFile(zip_path, 'r') and namelist().
extract_zip ==
    /\ tool = "fetcher" /\ UNCHANGED <<tool, uvars>>
    /\ fpc = "extract"
    /\ zip_ref' = "open"
    /\ archive' \in 0..MaxEntries
    /\ extracted' = 0
    /\ fpc' = "entries"
    /\ UNCHANGED <<stream, content_length, files, zip_data, f, response,
                   total_size, pbar, pos, manifest, exit_status, ferr,
                   attempts, log>>

\* ZipFile() raises BadZipFile: not a zip file, or its end is cut off.
extract_zip_open_raises ==
    /\ tool = "fetcher" /\ UNCHANGED <<tool, uvars>>
    /\ fpc = "extract"
    /\ except_clauses("BadZipFile", files)
    /\ UNCHANGED <<stream, content_length, archive, zip_data, f, response,
                   total_size, pbar, pos, zip_ref, extracted, manifest,
                   attempts, log>>

\* zip_ref.extract(file, extract_to); pbar.update(1)
ExtractEntry ==
    /\ tool = "fetcher" /\ UNCHANGED <<tool, uvars>>
    /\ fpc = "entries"
    /\ extracted < archive
    /\ files' = files \cup {EntryPath(extracted + 1)}
    /\ extracted' = extracted + 1
    /\ UNCHANGED <<fpc, stream, content_length, archive, zip_data, f,
                   response, total_size, pbar, pos, zip_ref, manifest,
                   exit_status, ferr, attempts, log>>

\* zip_ref.extract raises on an entry; the with block closes zip_ref.
\* A damaged entry raises BadZipFile (bad header, bad CRC-32) or the
\* decompressor's zlib.error; a full disk raises OSError.
ExtractEntry_raises ==
    /\ tool = "fetcher" /\ UNCHANGED <<tool, uvars>>
    /\ fpc = "entries"
    /\ extracted < archive
    /\ zip_ref' = "closed"
    /\ \E e \in {"BadZipFile", "zlib.error", "OSError"} :
          except_clauses(e, files)
    /\ UNCHANGED <<stream, content_length, archive, zip_data, f, response,
                   total_size, pbar, pos, extracted, manifest, attempts, log>>

\* every entry is extracted: the with block closes zip_ref.
ExtractDone ==
    /\ tool = "fetcher" /\ UNCHANGED <<tool, uvars>>
    /\ fpc = "entries"
    /\ extracted = archive
    /\ zip_ref' = "closed"
    /\ log' = Append(log, "extract")
    /\ fpc' = "unlink"
    /\ UNCHANGED <<stream, content_length, archive, files, zip_data, f,
                   response, total_size, pbar, pos, extracted, manifest,
                   exit_status, ferr, attempts>>

\* A faulty variant of Unlink: the archive is left in place.
Unlink_keeps_file ==
    /\ tool = "fetcher" /\ UNCHANGED <<tool, uvars>>
    /\ fpc = "unlink"
    /\ log' = Append(log, "unlink")
    /\ fpc' = "manifest"
    /\ UNCHANGED <<stream, content_length, archive, files, zip_data, f,
                   response, total_size, pbar, pos, zip_ref, extracted,
                   manifest, exit_status, ferr, attempts>>

\* Step 4: zip_path.unlink()
Unlink ==
    /\ tool = "fetcher" /\ UNCHANGED <<tool, uvars>>
    /\ fpc = "unlink"
    /\ files' = files \ {zip_path}
    /\ log' = Append(log, "unlink")
    /\ fpc' = "manifest"
    /\ UNCHANGED <<stream, content_length, archive, zip_data, f, response,
                   total_size, pbar, pos, zip_ref, extracted, manifest,
                   exit_status, ferr, attempts>>

Unlink_raises ==
    /\ tool = "fetcher" /\ UNCHANGED <<tool, uvars>>
    /\ fpc = "unlink"
    /\ except_clauses("OSError", files)
    /\ UNCHANGED <<stream, content_length, archive, zip_data, f, response,
                   total_size, pbar, pos, zip_ref, extracted, manifest,
                   attempts, log>>

\* Step 5: os.walk(checkpoints_dir) and the print of every file; the script
\* then ends, exit status 0.
PrintManifest ==
    /\ tool = "fetcher" /\ UNCHANGED <<tool, uvars>>
    /\ fpc = "manifest"
    /\ manifest' = files
    /\ log' = Append(log, "manifest")
    /\ exit_status' = 0
    /\ fpc' = "exited"
    /\ UNCHANGED <<stream, content_length, archive, files, zip_data, f,
                   response, total_size, pbar, pos, zip_ref, extracted,
                   ferr, attempts>>

\* file_path.stat() raises on a listed file.
PrintManifest_raises ==
    /\ tool = "fetcher" /\ UNCHANGED <<tool, uvars>>
    /\ fpc = "manifest"
    /\ files # {}
    /\ except_clauses("OSError", files)
    /\ UNCHANGED <<stream, content_length, archive, zip_data, f, response,
                   total_size, pbar, pos, zip_ref, extracted, manifest,
                   attempts, log>>

\* ==================================================== the specification
Init ==
    \/ tool = "upconverter" /\ UInit /\ FIdle
    \/ tool = "fetcher" /\ FInit /\ UIdle

Next ==
    \/ load_model
    \/ load_model_raises
    \/ OpenVideo
    \/ ReadFrame
    \/ OpenWriter
    \/ WriteOriginal
    \/ WriteMid
    \/ NextPair
    \/ interpolate_frame_raises
    \/ write_raises
    \/ WriteLast
    \/ MakeDir
    \/ MakeDir_raises
    \/ download_file
    \/ download_file_get_raises
    \/ download_file_open_raises
    \/ ReceiveChunk
    \/ EndOfStream
    \/ download_file_loop_raises
    \/ extract_zip
    \/ extract_zip_open_raises
    \/ ExtractEntry
    \/ ExtractEntry_raises
    \/ ExtractDone
    \/ Unlink
    \/ Unlink_raises
    \/ PrintManifest
    \/ PrintManifest_raises

Spec == Init /\ [][Next]_vars

\* ============================================================ properties
\* The decoded source frames of the input video.
SourceFrames == [j \in 1..Len(video) |-> SrcFrame(video[j])]

\* The output the Upconverter owes for source frames fr and n synthetic
\* frames per pair, position by position.
ExpectedOutput(fr, n) ==
    [p \in 1..(Len(fr) + (Len(fr) - 1) * n) |->
        LET idx == (p - 1) \div (n + 1)
            kk  == (p - 1) % (n + 1)
        IN  IF kk = 0 THEN fr[idx + 1]
            ELSE interpolate_frame(fr[idx + 1], fr[idx + 2], kk, n + 1)]

IsPrefix(s, t) == Len(s) <= Len(t) /\ s = SubSeq(t, 1, Len(s))

IsSrc(x) == x.kind = "src"

RECURSIVE SumLen(_)
SumLen(chunks) ==
    IF chunks = <<>> THEN 0 ELSE Len(Head(chunks)) + SumLen(Tail(chunks))

StepOrder == <<"mkdir", "download", "extract", "unlink", "manifest">>

\* C1: for F >= 1 decoded frames and interp_count N >= 0, a finished run has
\* written exactly: for each i < F-1 frame i then the N synthetic frames of
\* (frame i, frame i+1) at k/(N+1), k = 1..N, then frame F-1; that is
\* F + (F-1)*N frames, with every source frame once and in source order.
\* While the run is under way the output is a prefix of that sequence.
C1_OutputSequence ==
    (tool = "upconverter" /\ out # "none" /\ Len(video) >= 1) =>
        /\ interp_count >= 0
        /\ IsPrefix(written, ExpectedOutput(SourceFrames, interp_count))
        /\ upc = "done" =>
              /\ written = ExpectedOutput(SourceFrames, interp_count)
              /\ Len(written)
                   = Len(video) + (Len(video) - 1) * interp_count
              /\ Len(calls) = (Len(video) - 1) * interp_count
              /\ SelectSeq(written, IsSrc) = SourceFrames

C1_Witness ==
    /\ upc = "done"
    /\ Len(video) = 3
    /\ interp_count = 2
    /\ Len(written) = 7

\* C2: with at least one decoded frame, when target_fps <= source fps, or
\* target_fps / fps lies in (1, 1.5), interp_count is 0, interpolate_frame
\* is never called, and a finished run has written the input frames, same
\* order, same count.
InCopyRange ==
    \/ target_fps <= fps
    \/ fps > 0 /\ target_fps > fps /\ 2 * target_fps < 3 * fps

C2_Passthrough ==
    (tool = "upconverter" /\ Len(video) >= 1 /\ InCopyRange) =>
        /\ calls = <<>>
        /\ out # "none" => interp_count = 0
        /\ IsPrefix(written, SourceFrames)
        /\ upc = "done" =>
              /\ written = SourceFrames
              /\ Len(written) = Len(video)

C2_Witness ==
    /\ upc = "done"
    /\ target_fps > fps
    /\ 2 * target_fps < 3 * fps
    /\ Len(video) = 3
    /\ Len(written) = 3

\* C3: when the video opens but decodes to zero frames, the final write is
\* skipped: nothing is written, interpolate_frame is not called, and the
\* run closes the output and finishes normally.
C3_EmptyVideoFinishes ==
    (tool = "upconverter" /\ video = <<>> /\ cap = "released"
       /\ upc \in {"done", "failed"}) =>
        /\ upc = "done"
        /\ written = <<>>
        /\ calls = <<>>
        /\ out = "released"

\* C4: every resource is released on every exit path: a capture or writer
\* that was opened is released when the Upconverter ends, and the archive
\* file handle and the response stream are closed when the Fetcher ends.
C4_ResourcesReleased ==
    /\ upc \in {"done", "failed"} => cap # "open" /\ out # "open"
    /\ fpc = "exited" => f # "open" /\ response # "open" /\ zip_ref # "open"

\* C5: the output is opened, written or interpolated for only after the
\* model is loaded, the input was opened and every source frame is decoded;
\* a run whose checkpoint is missing or invalid, or whose input does not
\* open, fails with the output never created or written.
C5_PhasesInOrder ==
    tool = "upconverter" =>
        /\ cap # "none" => model = "loaded"
        /\ (out # "none" \/ written # <<>> \/ calls # <<>>) =>
              /\ model = "loaded"
              /\ cap = "released"
              /\ frames = SourceFrames
        /\ (upc \in {"done", "failed"}
              /\ (checkpoint \in {"missing", "invalid"} \/ ~cap_opens)) =>
              /\ upc = "failed"
              /\ uerr \in {"load_model", "RuntimeError"}
              /\ out = "none"
              /\ written = <<>>
              /\ calls = <<>>

C5_Witness ==
    /\ upc = "mids"
    /\ out = "open"
    /\ Len(frames) = 3
    /\ Len(calls) >= 1
    /\ Len(written) >= 2

\* C6: whenever the archive is corrupt or truncated (extraction fails at
\* open or on an entry), the temporary archive no longer exists when the
\* process ends, and the exit status is 1.
C6_CorruptArchiveDeleted ==
    (fpc = "exited" /\ ferr \in {"BadZipFile", "zlib.error"}) =>
        /\ zip_path \notin files
        /\ exit_status = 1

\* C7: a failure in any step, of any class, ends the run with exit status 1
\* after at most one download attempt and with no later step executed; the
\* exit status is 0 only if every step completed.
C7_ExitStatus ==
    /\ attempts <= 1
    /\ IsPrefix(log, StepOrder)
    /\ ferr # "none" => fpc = "exited"
    /\ fpc = "exited" =>
          /\ exit_status \in {0, 1}
          /\ exit_status = 1 <=> ferr # "none"
          /\ exit_status = 1 => Len(log) < Len(StepOrder)
          /\ exit_status = 0 => log = StepOrder
    /\ fpc # "exited" => exit_status = -1

C7_Witness ==
    /\ fpc = "exited"
    /\ exit_status = 1
    /\ ferr = "OSError"
    /\ log = <<"mkdir", "download", "extract">>
    /\ attempts = 1

\* C8: when the server omits content-length (total_size is 0), the download
\* runs to the end of the response stream and the file then holds the
\* received chunks concatenated in arrival order: its byte count is the
\* sum of the chunk lengths and is the count reported to the progress bar.
C8_DownloadWithoutLength ==
    (tool = "fetcher" /\ content_length = <<>>) =>
        /\ fpc = "chunks" =>
              /\ total_size = 0
              /\ zip_data = Concat(SubSeq(stream, 1, pos))
              /\ pbar = Len(zip_data)
        /\ (Len(log) >= 2 /\ zip_path \in files) =>
              /\ total_size = 0
              /\ pos = Len(stream)
              /\ zip_data = Concat(stream)
              /\ Len(zip_data) = SumLen(stream)
              /\ pbar = SumLen(stream)

C8_Witness ==
    /\ content_length = <<>>
    /\ fpc = "extract"
    /\ Len(stream) = 2
    /\ Len(zip_data) = 3
    /\ pbar = 3

\* C9: a successful run performs mkdir, download, extract, unlink, manifest
\* in that order: extraction starts only after the download has finished,
\* the archive is deleted only after every entry is extracted, the
\* manifest is listed only after the deletion, and at exit 0 the archive
\* does not exist and is not in the manifest.
C9_StepOrder ==
    tool = "fetcher" =>
        /\ IsPrefix(log, StepOrder)
        /\ (fpc = "entries" \/ zip_ref # "none") =>
              /\ Len(log) >= 2
              /\ f = "closed"
              /\ response = "released"
              /\ pos = Len(stream)
        /\ Len(log) >= 4 =>
              /\ extracted = archive
              /\ zip_ref = "closed"
              /\ \A e \in 1..archive : EntryPath(e) \in files
        /\ (Len(log) = 4 /\ fpc = "manifest") => zip_path \notin files
        /\ exit_status = 0 =>
              /\ log = StepOrder
              /\ zip_path \notin files
              /\ zip_path \notin manifest
              /\ manifest = {EntryPath(e) : e \in 1..archive}

C9_Witness ==
    /\ fpc = "exited"
    /\ exit_status = 0
    /\ archive = 2
    /\ Cardinality(manifest) = 2

\* C10: for positive fps and target_fps, interp_count is the non-negative
\* integer round(max(target_fps / fps, 1)) - 1, and every call of
\* interpolate_frame is on frames i and i+1 of the source at time
\* k / (interp_count + 1) with 1 <= k <= interp_count, strictly inside (0, 1).
IsRoundOf(m, n, d) ==
    \/ 2 * n - d < 2 * m * d /\ 2 * m * d < 2 * n + d
    \/ 2 * m * d = 2 * n - d /\ m % 2 = 0
    \/ 2 * m * d = 2 * n + d /\ m % 2 = 0

C10_InterpolationCalls ==
    (tool = "upconverter" /\ fps > 0 /\ target_fps > 0) =>
        /\ out # "none" =>
              /\ interp_count >= 0
              /\ IsRoundOf(interp_count + 1,
                           IF target_fps > fps THEN target_fps ELSE fps, fps)
        /\ \A c \in 1..Len(calls) :
              /\ out # "none"
              /\ calls[c].a >= 0
              /\ calls[c].b = calls[c].a + 1
              /\ calls[c].b <= Len(frames) - 1
              /\ 1 <= calls[c].num
              /\ calls[c].num <= interp_count
              /\ calls[c].den = interp_count + 1
              /\ 0 < calls[c].num
              /\ calls[c].num < calls[c].den

C10_Witness ==
    /\ upc = "done"
    /\ interp_count = 3
    /\ Len(calls) = 6
====
